---- MODULE Spec2Model ----
(***************************************************************************)
(* A model of pyLRT/RadTran.py: the wrapper around the uvspec executable   *)
(* of libRadtran, its fixed-width number formatter, its line scanners      *)
(* for the verbose output and the regridding of tables to the output       *)
(* wavelengths.                                                            *)
(*                                                                         *)
(* Text is modelled by TLA+ strings, a line keeping its trailing newline,  *)
(* so that the end of a stream (readline returns the empty string) differs *)
(* from an empty line.  A number is a decimal [m, e] standing for          *)
(* m * 10^e, which is how the values reach the program (Python literals    *)
(* and the decimal text uvspec prints).                                    *)
(***************************************************************************)
EXTENDS Integers, Sequences, FiniteSets, TLC

VARIABLES
    \* ---- _autoformat(value, maxchar, require_point)
    value,          \* the argument: a decimal [m, e]
    require_point,  \* the argument require_point
    nearest,        \* side of the decimal on which its nearest double lies
    fm_pc,          \* "idle" | "call" | "return" | "raise"
    value_str,      \* the string returned (or the exception raised)
    \* ---- the line cursor of the scanners
    f,              \* the lines of the stream
    pos,            \* lines consumed
    eof_reads,      \* reads of '' by the loops that look for a line (capped)
    \* ---- _match_table(f, start_idstr, nheader_rows, header_row)
    start_idstr,
    nheader_rows,
    header_row,     \* NoHeaderRow for None
    mt_pc,          \* "idle" | "search" | "header" | "rows" | "parse" | "return" | "raise"
    title,          \* the title captured, <<>> while unbound
    profiles,       \* the lines accumulated for the table
    matrix,         \* the rows parsed (or the exception raised)
    \* ---- _read_verbose(f), _get_wavelengths(f), _read_table(f, ...)
    rv_pc,          \* where _read_verbose is
    number,         \* the count of wavelengths the stream declares
    wavelengths,    \* the rows of the wavelength grid
    stage,          \* the 3D table being read: 1 gases, 2 redist, 3 optprop
    wv,             \* tables of this stage asked for so far
    optprop,        \* the matrices of this stage
    scanned,        \* calls of _match_table made by _read_verbose
    printed,        \* whether the diagnostic was printed
    rv_result,      \* what _read_verbose returned or raised
    \* ---- _map_to_outputwvl(data, wavelengths)
    wvl_grid,       \* the argument wavelengths: records OutputWVL, wvl, Weights
    data,           \* one slice (a row of numbers) for every internal wavelength
    rg_pc,          \* "idle" | "call" | "return"
    opdata,         \* the array returned
    \* ---- RadTran: the object and one call of run()
    options,        \* self.options: the pairs <<name, value>> in insertion order
    cloud,          \* self.cloud: None or the dict of add_cloud
    ice_cloud,      \* self.ice_cloud
    files,          \* the temporary files that exist
    run_pc,         \* where run() is
    verbose,        \* the argument verbose
    tmpcloud,       \* the name of the liquid cloud file, "" while unset
    tmpicecloud,    \* the name of the ice cloud file
    inputstr,       \* the text given to uvspec
    stderr,         \* process.stderr: its lines
    echoed,         \* the warning lines printed
    error,          \* the exception run() raised: its kind and text
    options_before  \* self.options when run() was called

fmtVars == <<value, require_point, nearest, fm_pc, value_str>>

scanVars == <<f, pos, eof_reads, start_idstr, nheader_rows, header_row, mt_pc,
              title, profiles, matrix>>

verboseVars == <<rv_pc, number, wavelengths, stage, wv, optprop, scanned,
                 printed, rv_result>>

regridVars == <<wvl_grid, data, rg_pc, opdata>>

runVars == <<options, cloud, ice_cloud, files, run_pc, verbose, tmpcloud,
             tmpicecloud, inputstr, stderr, echoed, error, options_before>>

\* Python's None, where a number is expected.
None == [none |-> TRUE]
IsNone(v) == "none" \in DOMAIN v

(***************************************************************************)
(* Strings.                                                                *)
(***************************************************************************)
Char(s, i) == SubSeq(s, i, i)

StartsWith(line, prefix) ==
    /\ Len(line) >= Len(prefix)
    /\ SubSeq(line, 1, Len(prefix)) = prefix

IsSpace(c) == c \in {" ", "\n", "\t"}

RECURSIVE LStrip(_)
LStrip(s) ==
    IF Len(s) > 0 /\ IsSpace(Char(s, 1)) THEN LStrip(SubSeq(s, 2, Len(s))) ELSE s

RECURSIVE RStrip(_)
RStrip(s) ==
    IF Len(s) > 0 /\ IsSpace(Char(s, Len(s)))
    THEN RStrip(SubSeq(s, 1, Len(s) - 1)) ELSE s

Strip(s) == LStrip(RStrip(s))

\* str.split(sep) for a one-character separator: the fields, empty ones kept.
RECURSIVE SplitFrom(_, _, _, _)
SplitFrom(s, sep, i, field) ==
    IF i > Len(s) THEN <<field>>
    ELSE IF Char(s, i) = sep
         THEN <<field>> \o SplitFrom(s, sep, i + 1, "")
         ELSE SplitFrom(s, sep, i + 1, field \o Char(s, i))

Split(s, sep) == SplitFrom(s, sep, 1, "")

\* str.replace(c, '') for a one-character c.
RECURSIVE Remove(_, _)
Remove(s, c) ==
    IF Len(s) = 0 THEN ""
    ELSE (IF Char(s, 1) = c THEN "" ELSE Char(s, 1)) \o Remove(SubSeq(s, 2, Len(s)), c)

Contains(s, c) == \E i \in 1..Len(s) : Char(s, i) = c

RECURSIVE Join(_)
Join(lines) == IF lines = <<>> THEN "" ELSE Head(lines) \o Join(Tail(lines))

(***************************************************************************)
(* Decimal arithmetic and Python's fixed-point formatting.                 *)
(***************************************************************************)
RECURSIVE Pow(_, _)
Pow(b, n) == IF n <= 0 THEN 1 ELSE b * Pow(b, n - 1)

RECURSIVE NumDigits(_)
NumDigits(n) == IF n < 10 THEN 1 ELSE 1 + NumDigits(n \div 10)

Digit(d) ==
    CASE d = 0 -> "0" [] d = 1 -> "1" [] d = 2 -> "2" [] d = 3 -> "3"
      [] d = 4 -> "4" [] d = 5 -> "5" [] d = 6 -> "6" [] d = 7 -> "7"
      [] d = 8 -> "8" [] d = 9 -> "9"

RECURSIVE IntToStr(_)
IntToStr(n) ==
    IF n < 10 THEN Digit(n) ELSE IntToStr(n \div 10) \o Digit(n % 10)

RECURSIVE ZeroPad(_, _)
ZeroPad(s, width) == IF Len(s) >= width THEN s ELSE ZeroPad("0" \o s, width)

Dec(m, e) == [m |-> m, e |-> e]

\* An integer, or a decimal whose denominator is a power of two, is a double.
ExactDouble(v) == v.e >= 0 \/ v.m % Pow(5, 0 - v.e) = 0

\* The mantissas hold at most MaxMantDigits digits: dropping more leaves 0.
MaxMantDigits == 8

\* v * 10^d rounded to an integer as '{:.<d>f}' rounds the double nearest v:
\* to nearest, a tie going to even when v is a double, and to the side of the
\* double otherwise.
Scaled(v, d, side) ==
    LET sh == v.e + d IN
    IF sh >= 0 THEN v.m * Pow(10, sh)
    ELSE IF 0 - sh > MaxMantDigits THEN 0
    ELSE LET p == Pow(10, 0 - sh)
             q == v.m \div p
             r == v.m % p
         IN  IF 2 * r > p THEN q + 1
             ELSE IF 2 * r < p THEN q
             ELSE IF ExactDouble(v) THEN (IF q % 2 = 0 THEN q ELSE q + 1)
             ELSE IF side = "above" THEN q + 1 ELSE q

\* '{:.<d>f}'.format(v)
FormatFixed(v, d, side) ==
    LET n == Scaled(v, d, side) IN
    IF d = 0 THEN IntToStr(n)
    ELSE IntToStr(n \div Pow(10, d)) \o "." \o ZeroPad(IntToStr(n % Pow(10, d)), d)

\* int(np.floor(np.log10(value))) + 1 for value > 0
SigFigs(v) == NumDigits(v.m) + v.e

(***************************************************************************)
(* _autoformat                                                             *)
(***************************************************************************)
DefaultMaxChar == 7

Returned(s) == [raised |-> "", str |-> s]
Raised(exc) == [raised |-> exc, str |-> ""]

\* The integer rendering of the branch that has no room for a point.
BareInteger(v, side) == Split(FormatFixed(v, 0, side), ".")[1]

MaxInt(maxchar, point) == IF point THEN maxchar - 2 ELSE maxchar

ValueSigFigs(val) == IF val.m > 0 THEN SigFigs(val) ELSE 1

\* The value formatted: the argument, or what the two warnings replace it by.
Clamped(val, maxchar, point) ==
    IF ValueSigFigs(val) > MaxInt(maxchar, point)
    THEN Dec(Pow(10, MaxInt(maxchar, point)) - 1, 0)
    ELSE IF ValueSigFigs(val) <= 2 - maxchar THEN Dec(1, 2 - maxchar)
    ELSE val

IntChars(val, maxchar, point) ==
    IF ValueSigFigs(val) > MaxInt(maxchar, point) THEN MaxInt(maxchar, point)
    ELSE IF ValueSigFigs(val) <= 2 - maxchar THEN 1
    ELSE IF ValueSigFigs(val) >= 1 THEN ValueSigFigs(val) ELSE 1

autoformat(val, maxchar, point, side) ==
    IF IsNone(val) THEN Raised("TypeError")
    ELSE
    LET clamped == Clamped(val, maxchar, point)
        intchars == IntChars(val, maxchar, point)
        str1 ==
            IF intchars < maxchar - 2
            THEN FormatFixed(clamped, maxchar - intchars - 1, side)
            ELSE BareInteger(clamped, side)
        str2 == IF point /\ ~Contains(str1, ".") THEN str1 \o ".0" ELSE str1
    IN  IF Len(str2) > maxchar THEN Raised("RuntimeError") ELSE Returned(str2)

(***************************************************************************)
(* The formatter on its own: the inputs are drawn in the initial state.    *)
(***************************************************************************)
MaxNegExp == 8
MaxPosExp == 2

Mantissas ==
    {0, 1, 5, 15, 125, 12345, 99999, 123455, 123457, 999995, 999996, 9999996}

FormatInputs ==
    {Dec(m, e) : m \in Mantissas, e \in (0 - MaxNegExp)..MaxPosExp}

FormatIdle ==
    /\ value = None
    /\ require_point = TRUE
    /\ nearest = "below"
    /\ fm_pc = "idle"
    /\ value_str = ""

FormatInit ==
    /\ value \in FormatInputs
    /\ require_point \in BOOLEAN
    /\ nearest \in {"below", "above"}
    /\ fm_pc = "call"
    /\ value_str = ""

AutoformatReturn ==
    /\ fm_pc = "call"
    /\ LET r == autoformat(value, DefaultMaxChar, require_point, nearest) IN
        /\ r.raised = ""
        /\ fm_pc' = "return"
        /\ value_str' = r.str
    /\ UNCHANGED <<value, require_point, nearest, scanVars, verboseVars, regridVars, runVars>>

AutoformatRaise ==
    /\ fm_pc = "call"
    /\ LET r == autoformat(value, DefaultMaxChar, require_point, nearest) IN
        /\ r.raised # ""
        /\ fm_pc' = "raise"
        /\ value_str' = r.raised
    /\ UNCHANGED <<value, require_point, nearest, scanVars, verboseVars, regridVars, runVars>>




(***************************************************************************)
(* The line cursor shared by the scanners: f is the stream, pos the        *)
(* number of lines read so far.                                            *)
(***************************************************************************)
MaxEofReads == 2
NoHeaderRow == -1

AtEof(stream, p) == p >= Len(stream)

\* f.readline(): the next line, '' at the end of the stream.
ReadLine(stream, p) == IF AtEof(stream, p) THEN "" ELSE stream[p + 1]
Advance(stream, p) == IF AtEof(stream, p) THEN p ELSE p + 1
CountEof(stream, p, n) ==
    IF AtEof(stream, p) /\ n < MaxEofReads THEN n + 1 ELSE n

RECURSIVE StripAll(_)
StripAll(fields) ==
    IF fields = <<>> THEN <<>> ELSE <<Strip(Head(fields))>> \o StripAll(Tail(fields))

\* [a.strip() for a in line.strip().split('|')]
TitleFields(line) == StripAll(Split(Strip(line), "|"))

\* _skiplines_title: the cursor and the title after iterations i..n-1.
\* The iteration i = t reads the title line and then one more line.
RECURSIVE SkipLinesTitleFrom(_, _, _, _, _, _)
SkipLinesTitleFrom(stream, i, n, t, p, ttl) ==
    IF i >= n THEN [pos |-> p, bound |-> ttl.bound, title |-> ttl.title]
    ELSE IF i = t
         THEN SkipLinesTitleFrom(stream, i + 1, n, t,
                  Advance(stream, Advance(stream, p)),
                  [bound |-> TRUE, title |-> TitleFields(ReadLine(stream, p))])
         ELSE SkipLinesTitleFrom(stream, i + 1, n, t, Advance(stream, p), ttl)

skiplines_title(stream, p, n, t) ==
    SkipLinesTitleFrom(stream, 0, n, t, p, [bound |-> FALSE, title |-> <<>>])

\* _skiplines(f, n)
RECURSIVE skiplines(_, _, _)
skiplines(stream, p, n) ==
    IF n <= 0 THEN p ELSE skiplines(stream, Advance(stream, p), n - 1)

\* The whitespace-separated fields of a line.
RECURSIVE WordsFrom(_, _, _)
WordsFrom(s, i, word) ==
    IF i > Len(s) THEN (IF word = "" THEN <<>> ELSE <<word>>)
    ELSE IF IsSpace(Char(s, i))
         THEN (IF word = "" THEN <<>> ELSE <<word>>) \o WordsFrom(s, i + 1, "")
         ELSE WordsFrom(s, i + 1, word \o Char(s, i))

Words(s) == WordsFrom(s, 1, "")

\* np.genfromtxt of the joined lines: one row per line that is not blank.
RECURSIVE TableRows(_)
TableRows(lines) ==
    IF lines = <<>> THEN <<>>
    ELSE (IF Words(Head(lines)) = <<>> THEN <<>> ELSE <<Words(Head(lines))>>)
         \o TableRows(Tail(lines))

SameColumns(rows) == \A i \in 1..Len(rows) : Len(rows[i]) = Len(rows[1])

\* One iteration of the loop that looks for the line starting the table.
MatchSearch ==
    /\ mt_pc = "search"
    /\ pos' = Advance(f, pos)
    /\ eof_reads' = CountEof(f, pos, eof_reads)
    /\ mt_pc' = IF StartsWith(ReadLine(f, pos), start_idstr) THEN "header" ELSE "search"
    /\ UNCHANGED <<f, start_idstr, nheader_rows, header_row, title, profiles, matrix>>
    /\ UNCHANGED <<fmtVars, verboseVars, regridVars, runVars>>

\* title = _skiplines_title(f, nheader_rows, header_row)
MatchHeader ==
    /\ mt_pc = "header"
    /\ LET r == skiplines_title(f, pos, nheader_rows, header_row) IN
        /\ pos' = r.pos
        /\ title' = r.title
        /\ mt_pc' = IF r.bound THEN "rows" ELSE "raise"
        /\ matrix' = IF r.bound THEN matrix ELSE <<<<"UnboundLocalError">>>>
    /\ UNCHANGED <<f, eof_reads, start_idstr, nheader_rows, header_row, profiles>>
    /\ UNCHANGED <<fmtVars, verboseVars, regridVars, runVars>>

\* One iteration of the loop that collects the rows of the table.  At the
\* end of the stream readline returns '', which ends nothing and is appended.
MatchRow ==
    /\ mt_pc = "rows"
    /\ LET line == ReadLine(f, pos) IN
        /\ pos' = Advance(f, pos)
        /\ eof_reads' = CountEof(f, pos, eof_reads)
        /\ IF StartsWith(line, " --") \/ StartsWith(line, "T")
           THEN mt_pc' = "parse" /\ profiles' = profiles
           ELSE /\ mt_pc' = "rows"
                /\ profiles' = IF AtEof(f, pos) /\ eof_reads >= MaxEofReads
                               THEN profiles
                               ELSE Append(profiles, Remove(line, "|"))
    /\ UNCHANGED <<f, start_idstr, nheader_rows, header_row, title, matrix>>
    /\ UNCHANGED <<fmtVars, verboseVars, regridVars, runVars>>

\* profiles = np.genfromtxt(...); return title, profiles
MatchParse ==
    /\ mt_pc = "parse"
    /\ LET rows == TableRows(profiles) IN
        IF SameColumns(rows)
        THEN mt_pc' = "return" /\ matrix' = rows
        ELSE mt_pc' = "raise" /\ matrix' = <<<<"ValueError">>>>
    /\ UNCHANGED <<f, pos, eof_reads, start_idstr, nheader_rows, header_row,
                   title, profiles>>
    /\ UNCHANGED <<fmtVars, verboseVars, regridVars, runVars>>

(***************************************************************************)
(* _match_table on its own, on the streams                                 *)
(*   junk* [marker] header^nheader_rows row^k [" --" | "T"]                *)
(***************************************************************************)
MaxJunk == 1
MaxRows == 3
MaxHeader == 4

Marker == "*** X"

HeaderLine(i, t) ==
    IF i = t THEN " lc |  z \n" ELSE "h" \o Digit(i) \o "\n"

DataRow(i) == " " \o Digit(i) \o " | " \o Digit(i) \o "0\n"

Terminators == {" ----------\n", "T = 288 K\n"}

TableBlock(marker, n, t, k, term) ==
    <<marker \o "\n">>
    \o [i \in 1..n |-> HeaderLine(i - 1, t)]
    \o [i \in 1..k |-> DataRow(i)]
    \o (IF term = "" THEN <<>> ELSE <<term>>)

Junk(n) == [i \in 1..n |-> " ... calling setup\n"]

TableStream(junk, marked, n, t, k, term) ==
    IF marked THEN Junk(junk) \o TableBlock(Marker \o " table", n, t, k, term)
    ELSE Junk(junk) \o Tail(TableBlock(Marker, n, t, k, term))

ScanIdle ==
    /\ f = <<>>
    /\ pos = 0
    /\ eof_reads = 0
    /\ start_idstr = ""
    /\ nheader_rows = 0
    /\ header_row = NoHeaderRow
    /\ mt_pc = "idle"
    /\ title = <<>>
    /\ profiles = <<>>
    /\ matrix = <<>>

ScanInit ==
    /\ nheader_rows \in 0..MaxHeader
    /\ header_row \in {NoHeaderRow} \cup (0..(MaxHeader - 1))
    /\ \E junk \in 0..MaxJunk, marked \in BOOLEAN, k \in 0..MaxRows,
          term \in Terminators \cup {""} :
            f = TableStream(junk, marked, nheader_rows, header_row, k, term)
    /\ pos = 0
    /\ eof_reads = 0
    /\ start_idstr = Marker
    /\ mt_pc = "search"
    /\ title = <<>>
    /\ profiles = <<>>
    /\ matrix = <<>>


(***************************************************************************)
(* _get_wavelengths, _read_table and _read_verbose: one cursor over the    *)
(* verbose output, threaded through every read.                            *)
(***************************************************************************)
GridMarker == " ... calling setup_rte_wlgrid()"
ProfilesMarker == "*** Scaling profiles"
TableMarkers == <<"*** setup_gases", "*** setup_redistribute", "*** optical_properties">>

TableHeaderRows == 4
ProfilesTitleRow == 1
TableTitleRow == 2
DiagnosticLines == 10

IsDigit(c) == c \in {"0", "1", "2", "3", "4", "5", "6", "7", "8", "9"}

\* int(s) and float(s) accept these; the streams hold no sign and no exponent.
IsInteger(s) == Len(s) > 0 /\ \A i \in 1..Len(s) : IsDigit(Char(s, i))
IsFloat(s) ==
    /\ \E i \in 1..Len(s) : IsDigit(Char(s, i))
    /\ \A i \in 1..Len(s) : IsDigit(Char(s, i)) \/ Char(s, i) = "."
    /\ Cardinality({i \in 1..Len(s) : Char(s, i) = "."}) <= 1

RECURSIVE StrToInt(_)
StrToInt(s) ==
    IF Len(s) = 0 THEN 0
    ELSE 10 * StrToInt(SubSeq(s, 1, Len(s) - 1))
         + (CHOOSE d \in 0..9 : Digit(d) = Char(s, Len(s)))

\* str.replace(sub, '')
RECURSIVE RemoveSub(_, _)
RemoveSub(s, sub) ==
    IF Len(s) = 0 THEN ""
    ELSE IF StartsWith(s, sub) THEN RemoveSub(SubSeq(s, Len(sub) + 1, Len(s)), sub)
    ELSE Char(s, 1) \o RemoveSub(SubSeq(s, 2, Len(s)), sub)

\* [a.strip().replace(' nm', '') for a in line.strip().split('|')]
RECURSIVE GridFields(_)
GridFields(fields) ==
    IF fields = <<>> THEN <<>>
    ELSE <<RemoveSub(Strip(Head(fields)), " nm")>> \o GridFields(Tail(fields))

GridRow(line) == GridFields(Split(Strip(line), "|"))

\* The `number` lines read from p on, each as its fields.
GridRows(stream, p, n) == [i \in 1..n |-> GridRow(ReadLine(stream, p + i - 1))]

\* float() of every field, np.array of the rows and the columns 0, 1 and 2.
GridOk(rows) ==
    /\ Len(rows) > 0
    /\ \A i \in 1..Len(rows) :
        /\ Len(rows[i]) >= 3
        /\ Len(rows[i]) = Len(rows[1])
        /\ \A j \in 1..Len(rows[i]) : IsFloat(rows[i][j])

\* np.genfromtxt gives a 2D array only for two rows and two columns or more.
Is2D(rows) == Len(rows) >= 2 /\ Len(rows[1]) >= 2

\* One iteration of the loop of _get_wavelengths that looks for the marker;
\* the iteration that finds it reads the count from the next line.
GetWavelengthsSearch ==
    /\ rv_pc = "gw_search"
    /\ eof_reads' = CountEof(f, pos, eof_reads)
    /\ IF StartsWith(ReadLine(f, pos), GridMarker)
       THEN LET tok == Split(Strip(ReadLine(f, pos + 1)), " ")[1] IN
            /\ pos' = Advance(f, Advance(f, pos))
            /\ IF IsInteger(tok)
               THEN number' = StrToInt(tok) /\ rv_pc' = "gw_rows"
               ELSE number' = number /\ rv_pc' = "except"
       ELSE /\ pos' = Advance(f, pos)
            /\ number' = number
            /\ rv_pc' = "gw_search"
    /\ UNCHANGED <<wavelengths, stage, wv, optprop, scanned, printed, rv_result>>
    /\ UNCHANGED <<f, start_idstr, nheader_rows, header_row, mt_pc, title,
                   profiles, matrix, fmtVars, regridVars, runVars>>

\* _skiplines(f, 1), the `number` rows and the Dataset built from them.
GetWavelengthsRows ==
    /\ rv_pc = "gw_rows"
    /\ LET p == skiplines(f, pos, 1)
           rows == GridRows(f, p, number)
       IN  /\ pos' = skiplines(f, p, number)
           /\ IF GridOk(rows)
              THEN wavelengths' = rows /\ rv_pc' = "profiles"
              ELSE wavelengths' = wavelengths /\ rv_pc' = "except"
    /\ UNCHANGED <<number, stage, wv, optprop, scanned, printed, rv_result>>
    /\ UNCHANGED <<f, eof_reads, start_idstr, nheader_rows, header_row, mt_pc,
                   title, profiles, matrix, fmtVars, regridVars, runVars>>

\* except: print the diagnostic and ten lines of the stream; return None
ReadVerboseExcept ==
    /\ rv_pc = "except"
    /\ printed' = TRUE
    /\ pos' = skiplines(f, pos, DiagnosticLines)
    /\ rv_result' = "None"
    /\ rv_pc' = "return"
    /\ UNCHANGED <<number, wavelengths, stage, wv, optprop, scanned>>
    /\ UNCHANGED <<f, eof_reads, start_idstr, nheader_rows, header_row, mt_pc,
                   title, profiles, matrix, fmtVars, regridVars, runVars>>

\* The call _match_table(f, marker, n, t) made by _read_verbose.
CallMatchTable(marker, n, t) ==
    /\ start_idstr' = marker
    /\ nheader_rows' = n
    /\ header_row' = t
    /\ mt_pc' = "search"
    /\ title' = <<>>
    /\ profiles' = <<>>
    /\ matrix' = <<>>
    /\ scanned' = scanned + 1

\* profiles = _match_table(f, '*** Scaling profiles', 4, 1)
ReadVerboseProfiles ==
    /\ rv_pc = "profiles"
    /\ mt_pc = "idle"
    /\ CallMatchTable(ProfilesMarker, TableHeaderRows, ProfilesTitleRow)
    /\ UNCHANGED <<rv_pc, number, wavelengths, stage, wv, optprop, printed, rv_result>>
    /\ UNCHANGED <<f, pos, eof_reads, fmtVars, regridVars, runVars>>

\* The Dataset of the profiles, then the first _read_table.
ReadVerboseProfilesDone ==
    /\ rv_pc = "profiles"
    /\ mt_pc = "return"
    /\ mt_pc' = "idle"
    /\ IF Is2D(matrix)
       THEN rv_pc' = "table" /\ stage' = 1 /\ rv_result' = rv_result
       ELSE rv_pc' = "raise" /\ stage' = stage /\ rv_result' = "IndexError"
    /\ wv' = 0
    /\ optprop' = <<>>
    /\ UNCHANGED <<number, wavelengths, scanned, printed>>
    /\ UNCHANGED <<f, pos, eof_reads, start_idstr, nheader_rows, header_row,
                   title, profiles, matrix, fmtVars, regridVars, runVars>>

\* temp = _match_table(f, start_idstr, 4, 2), once for every wavelength
ReadTableMatch ==
    /\ rv_pc = "table"
    /\ mt_pc = "idle"
    /\ wv < Len(wavelengths)
    /\ wv' = wv + 1
    /\ CallMatchTable(TableMarkers[stage], TableHeaderRows, TableTitleRow)
    /\ UNCHANGED <<rv_pc, number, wavelengths, stage, optprop, printed, rv_result>>
    /\ UNCHANGED <<f, pos, eof_reads, fmtVars, regridVars, runVars>>

\* optprop.append(temp[1])
ReadTableAppend ==
    /\ rv_pc = "table"
    /\ mt_pc = "return"
    /\ mt_pc' = "idle"
    /\ optprop' = Append(optprop, matrix)
    /\ UNCHANGED <<rv_pc, number, wavelengths, stage, wv, scanned, printed, rv_result>>
    /\ UNCHANGED <<f, pos, eof_reads, start_idstr, nheader_rows, header_row,
                   title, profiles, matrix, fmtVars, regridVars, runVars>>

\* np.array(optprop) and its Dataset: the matrices stack to a 3D array when
\* each is 2D and all have one shape.  After the third table the bundle.
ReadTableDone ==
    /\ rv_pc = "table"
    /\ mt_pc = "idle"
    /\ wv = Len(wavelengths)
    /\ IF \A i \in 1..Len(optprop) :
            /\ Is2D(optprop[i])
            /\ Len(optprop[i]) = Len(optprop[1])
            /\ Len(optprop[i][1]) = Len(optprop[1][1])
       THEN IF stage < Len(TableMarkers)
            THEN rv_pc' = "table" /\ stage' = stage + 1 /\ rv_result' = rv_result
            ELSE rv_pc' = "return" /\ stage' = stage /\ rv_result' = "bundle"
       ELSE rv_pc' = "raise" /\ stage' = stage /\ rv_result' = "IndexError"
    /\ wv' = 0
    /\ optprop' = <<>>
    /\ UNCHANGED <<number, wavelengths, scanned, printed>>
    /\ UNCHANGED <<scanVars, fmtVars, regridVars, runVars>>

\* An exception of _match_table leaves _read_verbose.
ReadVerboseRaise ==
    /\ rv_pc \in {"profiles", "table"}
    /\ mt_pc = "raise"
    /\ rv_pc' = "raise"
    /\ rv_result' = matrix[1][1]
    /\ UNCHANGED <<number, wavelengths, stage, wv, optprop, scanned, printed>>
    /\ UNCHANGED <<scanVars, fmtVars, regridVars, runVars>>

(***************************************************************************)
(* _read_verbose on the streams                                            *)
(*   junk* [marker, count] skipped row^r [every table | nothing]           *)
(* where the count declared and the number r of rows are independent.      *)
(***************************************************************************)
MaxWvl == 2

GridLine(i) == " 500 nm |  50" \o Digit(i) \o " nm | 0.5\n"

CountLines == {Digit(c) \o " wavelengths\n" : c \in 0..MaxWvl} \cup {"no wavelengths\n"}

RECURSIVE Blocks(_, _, _)
Blocks(marker, t, n) ==
    IF n <= 0 THEN <<>>
    ELSE TableBlock(marker, TableHeaderRows, t, MaxRows, " ----------\n")
         \o Blocks(marker, t, n - 1)

AllTables(r) ==
    Blocks(ProfilesMarker, ProfilesTitleRow, 1)
    \o Blocks(TableMarkers[1], TableTitleRow, r)
    \o Blocks(TableMarkers[2], TableTitleRow, r)
    \o Blocks(TableMarkers[3], TableTitleRow, r)

\* The same with a row of three columns ending the table of the profiles.
RaggedTables(r) ==
    TableBlock(ProfilesMarker, TableHeaderRows, ProfilesTitleRow, MaxRows,
               " 7 | 70 | 700\n")
    \o Tail(AllTables(r))

VerboseStream(junk, marked, count, r, tables) ==
    Junk(junk)
    \o (IF marked THEN <<GridMarker \o "\n", count>> ELSE <<>>)
    \o <<" OutputWVL | wvl | Weights\n">>
    \o [i \in 1..r |-> GridLine(i)]
    \o (CASE tables = "all" -> AllTables(r)
          [] tables = "ragged" -> RaggedTables(r)
          [] tables = "none" -> <<>>)

VerboseIdle ==
    /\ rv_pc = "idle"
    /\ number = 0
    /\ wavelengths = <<>>
    /\ stage = 0
    /\ wv = 0
    /\ optprop = <<>>
    /\ scanned = 0
    /\ printed = FALSE
    /\ rv_result = ""

VerboseInit ==
    /\ \E junk \in 0..MaxJunk, marked \in BOOLEAN, count \in CountLines,
          r \in 0..MaxWvl, tables \in {"all", "ragged", "none"} :
            f = VerboseStream(junk, marked, count, r, tables)
    /\ pos = 0
    /\ eof_reads = 0
    /\ start_idstr = ""
    /\ nheader_rows = 0
    /\ header_row = NoHeaderRow
    /\ mt_pc = "idle"
    /\ title = <<>>
    /\ profiles = <<>>
    /\ matrix = <<>>
    /\ rv_pc = "gw_search"
    /\ number = 0
    /\ wavelengths = <<>>
    /\ stage = 0
    /\ wv = 0
    /\ optprop = <<>>
    /\ scanned = 0
    /\ printed = FALSE
    /\ rv_result = ""

(***************************************************************************)
(* _map_to_outputwvl.  Weights are counted in halves: the weight w stands  *)
(* for w / 2, and so does every sum of weighted data.                      *)
(***************************************************************************)
\* The least element of a non-empty set of numbers.
Least(S) == CHOOSE x \in S : \A y \in S : x <= y

\* np.unique: the distinct values in ascending order.
RECURSIVE Ascending(_)
Ascending(S) == IF S = {} THEN <<>> ELSE <<Least(S)>> \o Ascending(S \ {Least(S)})

unique(values) == Ascending({values[i] : i \in 1..Len(values)})

\* np.where(output_wvl == x)[0]
Where(output_wvl, x) == {k \in 1..Len(output_wvl) : output_wvl[k] = x}

\* np.zeros([n] + shape of a slice)
Zeros(n, width) == [k \in 1..n |-> [c \in 1..width |-> 0]]

\* opdata[where] = weight * slice, the sum lost
AddInto_Overwrite(acc, where, weight, slice) ==
    [k \in 1..Len(acc) |->
        IF k \in where THEN [c \in 1..Len(slice) |-> weight * slice[c]]
        ELSE acc[k]]

\* opdata[where] += weight * slice
AddInto(acc, where, weight, slice) ==
    [k \in 1..Len(acc) |->
        IF k \in where THEN [c \in 1..Len(slice) |-> acc[k][c] + weight * slice[c]]
        ELSE acc[k]]

\* The loop over the internal wavelengths i..n.
RECURSIVE Accumulate(_, _, _, _, _)
Accumulate(d, grid, output_wvl, i, acc) ==
    IF i > Len(grid) THEN acc
    ELSE Accumulate(d, grid, output_wvl, i + 1,
             AddInto(acc, Where(output_wvl, grid[i].OutputWVL), grid[i].Weights, d[i]))

SliceWidth(d) == IF d = <<>> THEN 0 ELSE Len(d[1])

map_to_outputwvl(d, grid) ==
    LET output_wvl == unique([i \in 1..Len(grid) |-> grid[i].OutputWVL]) IN
    Accumulate(d, grid, output_wvl, 1, Zeros(Len(output_wvl), SliceWidth(d)))

MapToOutputWvl ==
    /\ rg_pc = "call"
    /\ opdata' = map_to_outputwvl(data, wvl_grid)
    /\ rg_pc' = "return"
    /\ UNCHANGED <<wvl_grid, data, fmtVars, scanVars, verboseVars, runVars>>

(***************************************************************************)
(* _map_to_outputwvl on its own.                                           *)
(***************************************************************************)
MaxGrid == 3

OutputWvls == {500, 600, 700}
WeightValues == {1, 2}
Slices == {<<1, 1>>, <<1, 2>>, <<3, 1>>}

GridEntry(out, internal, w) == [OutputWVL |-> out, wvl |-> internal, Weights |-> w]

\* The internal wavelengths of one output wavelength follow it: 500, 501, ...
Internal(outs, i) == outs[i] + Cardinality({j \in 1..(i - 1) : outs[j] = outs[i]})

RegridIdle ==
    /\ wvl_grid = <<>>
    /\ data = <<>>
    /\ rg_pc = "idle"
    /\ opdata = <<>>

RegridInit ==
    /\ \E n \in 1..MaxGrid :
        /\ \E outs \in [1..n -> OutputWvls], ws \in [1..n -> WeightValues] :
              wvl_grid = [i \in 1..n |-> GridEntry(outs[i], Internal(outs, i), ws[i])]
        /\ data \in [1..n -> Slices]
    /\ rg_pc = "call"
    /\ opdata = <<>>

(***************************************************************************)
(* RadTran: the option map, the clouds and run().                          *)
(***************************************************************************)
\* The ordered dict self.options.
Keys(opts) == {opts[i][1] : i \in 1..Len(opts)}

HasKey(opts, name) == name \in Keys(opts)

Get(opts, name) == opts[CHOOSE i \in 1..Len(opts) : opts[i][1] = name][2]

\* del opts[name]
Del(opts, name) == SelectSeq(opts, LAMBDA kv : kv[1] # name)

\* opts[name] = val: in place for a key the dict holds, at the end otherwise.
Set(opts, name, val) ==
    IF HasKey(opts, name)
    THEN [i \in 1..Len(opts) |-> IF opts[i][1] = name THEN <<name, val>> ELSE opts[i]]
    ELSE Append(opts, <<name, val>>)

\* The deletion left out.
DelIfPresent_Kept(opts, name) == opts

\* try: del opts[name]  except: pass
DelIfPresent(opts, name) == Del(opts, name)

\* '\n'.join(['{} {}'.format(name, self.options[name]) for name in ...])
RECURSIVE InputStr(_)
InputStr(opts) ==
    IF opts = <<>> THEN ""
    ELSE Head(opts)[1] \o " " \o Head(opts)[2]
         \o (IF Len(opts) > 1 THEN "\n" ELSE "") \o InputStr(Tail(opts))

LiquidKey == "wc_file 1D"
IceKey == "ic_file 1D"

\* add_cloud: the dict of a cloud of top height, base base_height, content
\* cwc (lwc or iwc, None when neither is given) and effective radius re.
CloudDict(height, base_height, cwc, re) ==
    [z |-> <<height, base_height>>, cwc |-> <<Dec(0, 0), cwc>>, re |-> <<Dec(0, 0), re>>]

\* sep.join of the results rs of _autoformat: the first exception among
\* them, or their strings joined by sep.
RECURSIVE JoinResults(_, _)
JoinResults(rs, sep) ==
    IF Len(rs) = 1 THEN Head(rs)
    ELSE IF Head(rs).raised # "" THEN Head(rs)
    ELSE LET rest == JoinResults(Tail(rs), sep) IN
         IF rest.raised # "" THEN rest ELSE Returned(Head(rs).str \o sep \o rest.str)

\* format_cloudstr: one line for every altitude, each field by _autoformat.
\* None of the values formatted is a tie of its last decimal, so the side of
\* the nearest double is of no account.
CloudLine(c, alt) ==
    LET fields == <<c.z[alt], c.cwc[alt], c.re[alt]>>
        formatted == JoinResults(
            [k \in 1..Len(fields) |-> autoformat(fields[k], DefaultMaxChar, TRUE, "below")],
            " ")
    IN  IF formatted.raised # "" THEN formatted ELSE Returned(" " \o formatted.str)

format_cloudstr(c) == JoinResults([alt \in 1..Len(c.z) |-> CloudLine(c, alt)], "\n")

\* tempfile.NamedTemporaryFile(delete=False): a name no file has.
MaxFiles == 3
TmpName(i) == "/tmp/tmp" \o Digit(i)
FreshName(existing) ==
    TmpName(Least({i \in 1..(MaxFiles + 2) : TmpName(i) \notin existing}))

\* The warning lines run() prints: the loop over stderr with its print_flag.
RECURSIVE EchoFrom(_, _, _)
EchoFrom(lines, i, print_flag) ==
    IF i > Len(lines) THEN <<>>
    ELSE IF StartsWith(lines[i], "*** Warning")
         THEN <<Strip(lines[i])>> \o EchoFrom(lines, i + 1, print_flag)
    ELSE IF StartsWith(lines[i], "*****")
         THEN <<Strip(lines[i])>> \o EchoFrom(lines, i + 1, ~print_flag)
    ELSE IF print_flag
         THEN <<Strip(lines[i])>> \o EchoFrom(lines, i + 1, print_flag)
    ELSE EchoFrom(lines, i + 1, print_flag)

Echo(lines) == EchoFrom(lines, 1, FALSE)

\* The loop that collects the error: the lines from the first one that
\* starts with 'Error' on, after the banner.
ErrorBanner == "UVSpec Error Message:\n"

\* The flag not kept: only the lines that start with 'Error' are collected.
RECURSIVE ErrorFrom_OnlyErrorLines(_, _, _)
ErrorFrom_OnlyErrorLines(lines, i, error_flag) ==
    IF i > Len(lines) THEN [flag |-> error_flag, lines |-> <<>>]
    ELSE LET hit == StartsWith(lines[i], "Error")
             rest == ErrorFrom_OnlyErrorLines(lines, i + 1, error_flag \/ hit)
         IN  [flag |-> rest.flag,
              lines |-> (IF hit THEN <<lines[i]>> ELSE <<>>) \o rest.lines]

RECURSIVE ErrorFrom(_, _, _)
ErrorFrom(lines, i, error_flag) ==
    IF i > Len(lines) THEN [flag |-> error_flag, lines |-> <<>>]
    ELSE LET flag == error_flag \/ StartsWith(lines[i], "Error")
             rest == ErrorFrom(lines, i + 1, flag)
         IN  [flag |-> rest.flag,
              lines |-> (IF flag THEN <<lines[i]>> ELSE <<>>) \o rest.lines]

ErrorScan(lines) ==
    LET r == ErrorFrom(lines, 1, FALSE) IN
    [flag |-> r.flag, text |-> Join(<<ErrorBanner>> \o r.lines)]

NoError == [kind |-> "", text |-> ""]

\* add_cloud(type, height, base_height, lwc | iwc, re)
MissingContent == None
CloudChoices ==
    {CloudDict(Dec(3, 0), Dec(1, 0), Dec(5, -1), Dec(10, 0)),
     CloudDict(Dec(3, 0), Dec(1, 0), MissingContent, Dec(10, 0))}

\* The locals of run() before a call and after it has been left.
NoCall ==
    /\ verbose' = FALSE
    /\ tmpcloud' = ""
    /\ tmpicecloud' = ""
    /\ inputstr' = ""
    /\ stderr' = <<>>
    /\ echoed' = <<>>
    /\ error' = NoError

\* add_cloud, between two calls of run().
AddCloud ==
    /\ run_pc \in {"idle", "return", "raise"}
    /\ \E c \in CloudChoices :
        \/ cloud' = c /\ ice_cloud' = ice_cloud
        \/ ice_cloud' = c /\ cloud' = cloud
    /\ run_pc' = "idle"
    /\ NoCall
    /\ options_before' = options
    /\ UNCHANGED <<options, files>>
    /\ UNCHANGED <<fmtVars, scanVars, verboseVars, regridVars>>

\* run(verbose, ...) is called.
RunCall ==
    /\ run_pc \in {"idle", "return", "raise"}
    /\ Cardinality(files) + 2 <= MaxFiles
    /\ verbose' \in BOOLEAN
    /\ run_pc' = "cloud"
    /\ tmpcloud' = ""
    /\ tmpicecloud' = ""
    /\ inputstr' = ""
    /\ stderr' = <<>>
    /\ echoed' = <<>>
    /\ error' = NoError
    /\ options_before' = options
    /\ UNCHANGED <<options, cloud, ice_cloud, files>>
    /\ UNCHANGED <<fmtVars, scanVars, verboseVars, regridVars>>

\* if self.cloud: tmpcloud = self._cloud_input(type="liquid")
RunLiquidCloud ==
    /\ run_pc = "cloud"
    /\ IF IsNone(cloud)
       THEN run_pc' = "icecloud" /\ UNCHANGED <<files, options, tmpcloud, error>>
       ELSE LET name == FreshName(files)
                cloudstr == format_cloudstr(cloud)
            IN  /\ files' = files \cup {name}
                /\ IF cloudstr.raised # ""
                   THEN /\ run_pc' = "raise"
                        /\ error' = [kind |-> cloudstr.raised, text |-> ""]
                        /\ UNCHANGED <<options, tmpcloud>>
                   ELSE /\ run_pc' = "icecloud"
                        /\ options' = Set(options, LiquidKey, name)
                        /\ tmpcloud' = name
                        /\ error' = error
    /\ UNCHANGED <<cloud, ice_cloud, verbose, tmpicecloud, inputstr, stderr,
                   echoed, options_before>>
    /\ UNCHANGED <<fmtVars, scanVars, verboseVars, regridVars>>

\* if self.ice_cloud: tmpicecloud = self._cloud_input(type="ice")
RunIceCloud ==
    /\ run_pc = "icecloud"
    /\ IF IsNone(ice_cloud)
       THEN run_pc' = "verbose" /\ UNCHANGED <<files, options, tmpicecloud, error>>
       ELSE LET name == FreshName(files)
                cloudstr == format_cloudstr(ice_cloud)
            IN  /\ files' = files \cup {name}
                /\ IF cloudstr.raised # ""
                   THEN /\ run_pc' = "raise"
                        /\ error' = [kind |-> cloudstr.raised, text |-> ""]
                        /\ UNCHANGED <<options, tmpicecloud>>
                   ELSE /\ run_pc' = "verbose"
                        /\ options' = Set(options, IceKey, name)
                        /\ tmpicecloud' = name
                        /\ error' = error
    /\ UNCHANGED <<cloud, ice_cloud, verbose, tmpcloud, inputstr, stderr,
                   echoed, options_before>>
    /\ UNCHANGED <<fmtVars, scanVars, verboseVars, regridVars>>

\* if verbose: del options['quiet'] if it is there; options['verbose'] = ''
RunVerboseOption ==
    /\ run_pc = "verbose"
    /\ options' = IF verbose
                  THEN Set(DelIfPresent(options, "quiet"), "verbose", "")
                  ELSE options
    /\ run_pc' = "input"
    /\ UNCHANGED <<cloud, ice_cloud, files, verbose, tmpcloud, tmpicecloud,
                   inputstr, stderr, echoed, error, options_before>>
    /\ UNCHANGED <<fmtVars, scanVars, verboseVars, regridVars>>

MaxStderr == 3

StderrLines ==
    {"Error: bad altitude\n", "*** Warning: no aerosol\n", "*****\n", " reading atmosphere\n"}

StderrStreams == UNION {[1..n -> StderrLines] : n \in 0..MaxStderr}

\* inputstr = '\n'.join(...): the text for uvspec is built from the options.
RunBuildInput ==
    /\ run_pc = "input"
    /\ inputstr' = InputStr(options)
    /\ run_pc' = "invoke"
    /\ UNCHANGED <<options, cloud, ice_cloud, files, verbose, tmpcloud,
                   tmpicecloud, stderr, echoed, error, options_before>>
    /\ UNCHANGED <<fmtVars, scanVars, verboseVars, regridVars>>

\* uvspec runs on inputstr: it writes some stderr.
RunInvoke ==
    /\ run_pc = "invoke"
    /\ stderr' \in StderrStreams
    /\ run_pc' = "cleanup"
    /\ UNCHANGED <<options, cloud, ice_cloud, files, verbose, tmpcloud,
                   tmpicecloud, inputstr, echoed, error, options_before>>
    /\ UNCHANGED <<fmtVars, scanVars, verboseVars, regridVars>>

\* os.chdir or subprocess.run raises: no folder, no executable.
RunInvokeFails ==
    /\ run_pc = "invoke"
    /\ run_pc' = "raise"
    /\ error' = [kind |-> "OSError", text |-> ""]
    /\ UNCHANGED <<options, cloud, ice_cloud, files, verbose, tmpcloud,
                   tmpicecloud, inputstr, stderr, echoed, options_before>>
    /\ UNCHANGED <<fmtVars, scanVars, verboseVars, regridVars>>

\* if self.cloud: os.remove(...); del options['wc_file 1D'], and for the ice
RunCleanup ==
    /\ run_pc = "cleanup"
    /\ LET files1 == IF IsNone(cloud) THEN files ELSE files \ {tmpcloud}
           opts1 == IF IsNone(cloud) THEN options ELSE Del(options, LiquidKey)
       IN  /\ files' = IF IsNone(ice_cloud) THEN files1 ELSE files1 \ {tmpicecloud}
           /\ options' = IF IsNone(ice_cloud) THEN opts1 ELSE Del(opts1, IceKey)
    /\ run_pc' = "warnings"
    /\ UNCHANGED <<cloud, ice_cloud, verbose, tmpcloud, tmpicecloud, inputstr,
                   stderr, echoed, error, options_before>>
    /\ UNCHANGED <<fmtVars, scanVars, verboseVars, regridVars>>

\* if not quiet: print the warnings.  The argument quiet is read here only.
RunWarnings ==
    /\ run_pc = "warnings"
    /\ \E quiet \in BOOLEAN : echoed' = IF quiet THEN <<>> ELSE Echo(stderr)
    /\ run_pc' = "errors"
    /\ UNCHANGED <<options, cloud, ice_cloud, files, verbose, tmpcloud,
                   tmpicecloud, inputstr, stderr, error, options_before>>
    /\ UNCHANGED <<fmtVars, scanVars, verboseVars, regridVars>>

\* The check for errors: raise ValueError(error) if a line started with 'Error'
RunErrors ==
    /\ run_pc = "errors"
    /\ LET e == ErrorScan(stderr) IN
        IF e.flag
        THEN run_pc' = "raise" /\ error' = [kind |-> "ValueError", text |-> e.text]
        ELSE run_pc' = "output" /\ error' = error
    /\ UNCHANGED <<options, cloud, ice_cloud, files, verbose, tmpcloud,
                   tmpicecloud, inputstr, stderr, echoed, options_before>>
    /\ UNCHANGED <<fmtVars, scanVars, verboseVars, regridVars>>

\* 'verbose' deleted and 'quiet' not set.
OptionsAtReturn_NoQuiet(opts, verb) ==
    IF verb THEN DelIfPresent(opts, "verbose") ELSE opts

\* if verbose: del options['verbose'] if it is there; options['quiet'] = ''
OptionsAtReturn(opts, verb) ==
    IF verb THEN Set(DelIfPresent(opts, "verbose"), "quiet", "") ELSE opts

\* return np.genfromtxt(stdout) and, if verbose, _read_verbose(stderr)
RunReturn ==
    /\ run_pc = "output"
    /\ options' = OptionsAtReturn(options, verbose)
    /\ run_pc' = "return"
    /\ UNCHANGED <<cloud, ice_cloud, files, verbose, tmpcloud, tmpicecloud,
                   inputstr, stderr, echoed, error, options_before>>
    /\ UNCHANGED <<fmtVars, scanVars, verboseVars, regridVars>>

\* The same with an stdout that np.genfromtxt refuses (rows of unequal length).
RunOutputFails ==
    /\ run_pc = "output"
    /\ options' = OptionsAtReturn(options, verbose)
    /\ run_pc' = "raise"
    /\ error' = [kind |-> "ValueError", text |-> "genfromtxt"]
    /\ UNCHANGED <<cloud, ice_cloud, files, verbose, tmpcloud, tmpicecloud,
                   inputstr, stderr, echoed, options_before>>
    /\ UNCHANGED <<fmtVars, scanVars, verboseVars, regridVars>>

(***************************************************************************)
(* A RadTran object whose options the user has set, and its calls.         *)
(***************************************************************************)
MaxOptions == 2

UserOptions == {<<"rte_solver", "disort">>, <<"verbose", "">>, <<"quiet", "">>}

\* 'verbose' and 'quiet' exclude each other in the input of uvspec.
AtMostOneMode(names) == ~({"verbose", "quiet"} \subseteq names)

\* The maps a user sets up: no name twice, and not both modes.
OptionMaps ==
    {o \in UNION {[1..n -> UserOptions] : n \in 0..MaxOptions} :
        /\ \A i, j \in 1..Len(o) : i # j => o[i][1] # o[j][1]
        /\ AtMostOneMode(Keys(o))}

RunIdle ==
    /\ options = <<>>
    /\ cloud = None
    /\ ice_cloud = None
    /\ files = {}
    /\ run_pc = "idle"
    /\ verbose = FALSE
    /\ tmpcloud = ""
    /\ tmpicecloud = ""
    /\ inputstr = ""
    /\ stderr = <<>>
    /\ echoed = <<>>
    /\ error = NoError
    /\ options_before = <<>>

RunInit ==
    /\ options \in OptionMaps
    /\ cloud = None
    /\ ice_cloud = None
    /\ files = {}
    /\ run_pc = "idle"
    /\ verbose = FALSE
    /\ tmpcloud = ""
    /\ tmpicecloud = ""
    /\ inputstr = ""
    /\ stderr = <<>>
    /\ echoed = <<>>
    /\ error = NoError
    /\ options_before = options

vars == <<fmtVars, scanVars, verboseVars, regridVars, runVars>>

InitFormat == FormatInit /\ ScanIdle /\ VerboseIdle /\ RegridIdle /\ RunIdle
NextFormat == AutoformatReturn \/ AutoformatRaise
SpecFormat == InitFormat /\ [][NextFormat]_vars

InitScan == ScanInit /\ FormatIdle /\ VerboseIdle /\ RegridIdle /\ RunIdle
NextScan == MatchSearch \/ MatchHeader \/ MatchRow \/ MatchParse
SpecScan == InitScan /\ [][NextScan]_vars

InitVerbose == VerboseInit /\ FormatIdle /\ RegridIdle /\ RunIdle
NextVerbose ==
    \/ GetWavelengthsSearch \/ GetWavelengthsRows \/ ReadVerboseExcept
    \/ ReadVerboseProfiles \/ ReadVerboseProfilesDone
    \/ ReadTableMatch \/ ReadTableAppend \/ ReadTableDone \/ ReadVerboseRaise
    \/ MatchSearch \/ MatchHeader \/ MatchRow \/ MatchParse
SpecVerbose == InitVerbose /\ [][NextVerbose]_vars

InitRegrid == RegridInit /\ FormatIdle /\ ScanIdle /\ VerboseIdle /\ RunIdle
NextRegrid == MapToOutputWvl
SpecRegrid == InitRegrid /\ [][NextRegrid]_vars

InitRun == RunInit /\ FormatIdle /\ ScanIdle /\ VerboseIdle /\ RegridIdle
NextRun ==
    \/ AddCloud \/ RunCall \/ RunLiquidCloud \/ RunIceCloud \/ RunVerboseOption
    \/ RunBuildInput \/ RunInvoke \/ RunInvokeFails \/ RunCleanup \/ RunWarnings \/ RunErrors
    \/ RunReturn \/ RunOutputFails
SpecRun == InitRun /\ [][NextRun]_vars

(***************************************************************************)
(* The properties.                                                         *)
(***************************************************************************)

\* C1: on a stream with no line starting with the marker, _match_table ends
\* with a failure once the stream is exhausted: it is never still looking
\* for the marker after a read has returned the end of the stream.
C1_SearchEndsAtEndOfStream == ~(mt_pc = "search" /\ eof_reads > 0)

\* The stream is marker, nheader_rows header lines with the title at
\* header_row < nheader_rows, k rows and a terminator, after `junk` lines.
WellFormedTable(junk, k) ==
    /\ header_row \in 0..(nheader_rows - 1)
    /\ \E term \in Terminators : f = TableStream(junk, TRUE, nheader_rows, header_row, k, term)

\* C2: on such a stream the scan consumes exactly nheader_rows lines after
\* the marker, takes the title from the line at offset header_row and
\* returns a matrix of all the k rows.
C2_ScanReturnsEveryRow ==
    \A junk \in 0..MaxJunk, k \in 0..MaxRows :
        WellFormedTable(junk, k) =>
            /\ (mt_pc = "rows" /\ profiles = <<>>) => pos = junk + 1 + nheader_rows
            /\ mt_pc = "return" => title = <<"lc", "z">> /\ Len(matrix) = k

\* C3: with require_point and the default width, _autoformat returns a
\* string of at most DefaultMaxChar characters for every value that is not
\* negative: it never raises.
C3_FormatFitsWidth ==
    (fm_pc # "call" /\ require_point) =>
        fm_pc = "return" /\ Len(value_str) <= DefaultMaxChar

\* The integer part of a decimal: the fraction cut off.
Trunc(v) == IF v.e >= 0 THEN v.m * Pow(10, v.e) ELSE v.m \div Pow(10, 0 - v.e)

\* C9: a value whose integer digits leave no room for a point is rendered
\* as its integer part, the fraction cut off, with ".0" if a point is
\* required.
C9_BareIntegerTruncates ==
    (fm_pc # "call" /\ IntChars(value, DefaultMaxChar, require_point) >= DefaultMaxChar - 2) =>
        /\ fm_pc = "return"
        /\ value_str = IntToStr(Trunc(Clamped(value, DefaultMaxChar, require_point)))
                       \o (IF require_point THEN ".0" ELSE "")

\* C4: when run() has been left, by a return or by any exception, no
\* temporary cloud file exists and the option map holds no cloud key.
C4_CloudFilesCleanedOnEveryExit ==
    run_pc \in {"return", "raise"} =>
        files = {} /\ ~HasKey(options, LiquidKey) /\ ~HasKey(options, IceKey)

ErrorLines(lines) == {i \in 1..Len(lines) : StartsWith(lines[i], "Error")}

\* C5: when a line of stderr starts with 'Error', run() does not return: it
\* raises ValueError, whose text is the banner and then the lines of stderr
\* from the first such line to the last line.
C5_ErrorLineRaises ==
    (run_pc \in {"output", "return", "raise"} /\ ErrorLines(stderr) # {}) =>
        /\ run_pc = "raise"
        /\ error.kind = "ValueError"
        /\ error.text = ErrorBanner
                        \o Join(SubSeq(stderr, Least(ErrorLines(stderr)), Len(stderr)))

C5_Witness ==
    /\ run_pc = "raise"
    /\ ErrorLines(stderr) # {}
    /\ 1 < Least(ErrorLines(stderr))
    /\ Least(ErrorLines(stderr)) < Len(stderr)

\* The sum of term[i] over the indices i of S.
RECURSIVE SumOver(_, _)
SumOver(S, term) ==
    IF S = {} THEN 0
    ELSE LET i == CHOOSE x \in S : TRUE IN term[i] + SumOver(S \ {i}, term)

OutputValues == {wvl_grid[i].OutputWVL : i \in 1..Len(wvl_grid)}

\* C6: the array returned has one slice for every distinct output
\* wavelength; the slice of u, at the place of u in ascending order, is the
\* sum of Weights[i] * data[i] over the indices i whose OutputWVL is u.
C6_RegridSumsEachBin ==
    rg_pc = "return" =>
        /\ Len(opdata) = Cardinality(OutputValues)
        /\ \A u \in OutputValues :
            LET k == 1 + Cardinality({v \in OutputValues : v < u})
                contributors == {i \in 1..Len(wvl_grid) : wvl_grid[i].OutputWVL = u}
            IN  \A c \in 1..Len(data[1]) :
                    opdata[k][c] =
                        SumOver(contributors,
                                [i \in 1..Len(wvl_grid) |-> wvl_grid[i].Weights * data[i][c]])

\* The grid (500, 500, 0.5), (500, 501, 0.5), (600, 600, 1.0) with slices
\* of ones gives 1.0 everywhere (two halves).
C6_Witness ==
    /\ rg_pc = "return"
    /\ wvl_grid = <<GridEntry(500, 500, 1), GridEntry(500, 501, 1), GridEntry(600, 600, 2)>>
    /\ data = <<<<1, 1>>, <<1, 1>>, <<1, 1>>>>
    /\ opdata = <<<<2, 2>>, <<2, 2>>>>

NoGridMarker == \A i \in 1..Len(f) : ~StartsWith(f[i], GridMarker)

CountExceedsRows ==
    \E junk \in 0..MaxJunk, c \in 0..MaxWvl, r \in 0..MaxWvl,
       tables \in {"all", "ragged", "none"} :
        /\ c > r
        /\ f = VerboseStream(junk, TRUE, Digit(c) \o " wavelengths\n", r, tables)

\* C7: on a stream without the marker of the wavelength grid, or one that
\* declares more wavelengths than rows follow, the read of the grid fails
\* and _read_verbose ends: it scans no table, prints the diagnostic and
\* returns None.  It is never still reading the grid after the end of the
\* stream.
C7_GridFailureReturnsNone ==
    (NoGridMarker \/ CountExceedsRows) =>
        /\ scanned = 0
        /\ rv_pc \in {"gw_search", "gw_rows", "except", "return"}
        /\ eof_reads > 0 => rv_pc \in {"except", "return"}
        /\ rv_pc = "return" => rv_result = "None" /\ printed

\* C8, as stated: a call of run() that returns leaves the option map as it
\* was when run() was called.
C8_ReturnLeavesOptions == run_pc = "return" => options = options_before

CloudKeys == (IF IsNone(cloud) THEN {} ELSE {LiquidKey})
             \cup (IF IsNone(ice_cloud) THEN {} ELSE {IceKey})

Without(opts, names) == SelectSeq(opts, LAMBDA kv : kv[1] \notin names)

\* C8, amended: a call without verbose that returns leaves the map as it
\* was, less the key of each cloud the object holds; a call with verbose
\* that returns leaves it also without 'verbose' and with 'quiet' = '' as
\* its last entry.
C8_ReturnLeavesOptionsButMode ==
    run_pc = "return" =>
        options = IF verbose
                  THEN Append(Without(options_before, CloudKeys \cup {"verbose", "quiet"}),
                              <<"quiet", "">>)
                  ELSE Without(options_before, CloudKeys)

C8_Witness ==
    /\ run_pc = "return"
    /\ verbose
    /\ ~IsNone(cloud)
    /\ options_before = <<<<"quiet", "">>, <<"rte_solver", "disort">>>>
    /\ options = <<<<"rte_solver", "disort">>, <<"quiet", "">>>>

\* The option names of the text given to uvspec.
InputNames(text) ==
    LET lines == Split(text, "\n") IN
    {Split(lines[i], " ")[1] : i \in 1..Len(lines)}

\* C10: from a map that does not hold both 'verbose' and 'quiet', through
\* any calls of run(), the map never holds both, and neither does the text
\* a call has built for uvspec (run_pc = "invoke": the text is what the
\* process is given, and it does not change afterwards).
C10_ModesExclusive ==
    /\ AtMostOneMode(Keys(options))
    /\ run_pc = "invoke" => AtMostOneMode(InputNames(inputstr))

\* A verbose call on a map that held 'quiet' has sent its input, after an
\* earlier call that failed and left its file.
C10_Witness ==
    /\ run_pc = "cleanup"
    /\ verbose
    /\ HasKey(options_before, "quiet")
    /\ "verbose" \in InputNames(inputstr)
    /\ \E name \in files : name \notin {tmpcloud, tmpicecloud}

====
